---------------------------- MODULE Spec2Model ----------------------------
(***************************************************************************)
(* Model of caller.cpp: a measurement session against an e4 device.        *)
(* main detects and connects a device, configures it with stacked/applied  *)
(* commands, compensates the digital offset, arms a triangular protocol,   *)
(* streams data packets to data.dat in a poll-read cycle and disconnects   *)
(* with a bounded retry.  The device session (class EDL of edl.h) is an    *)
(* external collaborator: every result it returns is a nondeterministic    *)
(* choice.                                                                 *)
(***************************************************************************)
EXTENDS Integers, Sequences, FiniteSets, TLC

(***************************************************************************)
(* Bounds.  The two loop budgets are 1e3 in the source (lines 124 and      *)
(* 251); the model runs the same loops with a small budget so that the     *)
(* state space stays finite and small.                                     *)
(***************************************************************************)
AcqIterations == 3      \* stands for the 1e3 of "for (c = 0; c < 1e3; c++)"
MaxAttempts == 3        \* stands for the 1e3 of "while (c++ < 1e3)"
MaxAvail == 15          \* largest availableDataPackets a status reports

(***************************************************************************)
(* Program constants.                                                      *)
(***************************************************************************)
MINIMUM_DATA_PACKETS_TO_READ == 10
EDL_CHANNEL_NUM == 8
SizeofFloat == 4
DwellMs == 5000

(***************************************************************************)
(* EdlErrorCode_t.  EdlOtherError stands for every code the program does   *)
(* not name.                                                               *)
(***************************************************************************)
EdlSuccess == "EdlSuccess"
EdlDeviceNotConnectedError == "EdlDeviceNotConnectedError"
EdlNotEnoughAvailableDataError == "EdlNotEnoughAvailableDataError"
EdlOtherError == "EdlOtherError"
EdlErrorCode_t ==
    {EdlSuccess, EdlDeviceNotConnectedError, EdlNotEnoughAvailableDataError,
     EdlOtherError}

(***************************************************************************)
(* EdlDeviceStatus_t snapshots the device session can report.              *)
(***************************************************************************)
AvailValues ==
    {0, MINIMUM_DATA_PACKETS_TO_READ - 1, MINIMUM_DATA_PACKETS_TO_READ,
     MaxAvail}
EdlDeviceStatus_t ==
    [availableDataPackets : AvailValues,
     bufferOverflowFlag : BOOLEAN,
     lostDataFlag : BOOLEAN]

\* The packet counts readData can hand back for a request of req packets.
ReadCounts(req) == {0, req - 1, req} \cap (0..req)

VARIABLES
    pc,         \* position of main
    res,        \* main's res
    c,          \* main's disconnect counter (line 250)
    exitCode,   \* value returned by main, "running" before it returns
    ret,        \* the return statement main took
    k,          \* index of the next statement of the running command function
    pending,    \* device session: requests stacked and not yet flushed
    delivered,  \* device session: requests flushed to the device, in order
    issued,     \* setCommand calls made so far, in program order
    sleeps,     \* milliseconds slept in the command phase (Sleep(5000))
    nDisconnect,\* disconnectDevice calls made so far
    acq,        \* activation of readAndSaveSomeData and the sink it works on
    twin        \* a second activation fed the same device responses except
                \* for the advisory flags of the status snapshots

vars ==
    <<pc, res, c, exitCode, ret, k, pending, delivered, issued, sleeps,
      nDisconnect, acq, twin>>

(***************************************************************************)
(* Command phase: the statements of the three configuration functions.     *)
(***************************************************************************)
Cmd(id, payload, apply) ==
    [op |-> "setCommand", id |-> id, payload |-> payload, apply |-> apply]
SleepStmt(ms) == [op |-> "Sleep", ms |-> ms]

configureWorkingModality ==
    << Cmd("EdlCommandSamplingRate", "EDL_RADIO_SAMPLING_RATE_5_KHZ", FALSE),
       Cmd("EdlCommandRange", "EDL_RADIO_RANGE_200_PA", FALSE),
       Cmd("EdlCommandFinalBandwidth", "EDL_RADIO_FINAL_BANDWIDTH_SR_2", TRUE) >>

CompensationReleasedBeforeDwell ==
    << Cmd("EdlCommandMainTrial", 0, FALSE),
       Cmd("EdlCommandVhold", 0, FALSE),
       Cmd("EdlCommandApplyProtocol", 0, TRUE),
       Cmd("EdlCommandCompAll", "EDL_BUTTON_PRESSED", TRUE),
       Cmd("EdlCommandCompAll", "EDL_BUTTON_RELEASED", TRUE),
       SleepStmt(DwellMs) >>
compensateDigitalOffset ==
    << Cmd("EdlCommandMainTrial", 0, FALSE),
       Cmd("EdlCommandVhold", 0, FALSE),
       Cmd("EdlCommandApplyProtocol", 0, TRUE),
       Cmd("EdlCommandCompAll", "EDL_BUTTON_PRESSED", TRUE),
       SleepStmt(DwellMs),
       Cmd("EdlCommandCompAll", "EDL_BUTTON_RELEASED", TRUE) >>

setTriangularProtocol ==
    << Cmd("EdlCommandMainTrial", 1, FALSE),
       Cmd("EdlCommandVhold", 0, FALSE),
       Cmd("EdlCommandVamp", 50, FALSE),
       Cmd("EdlCommandTPeriod", 100, FALSE),
       Cmd("EdlCommandApplyProtocol", 100, TRUE) >>

\* EDL::setCommand, the stack-or-flush primitive: the request joins the
\* pending batch; an applying request flushes the whole batch in order.
FlushAlways(batch, dev, req) ==
    [pending |-> <<>>, delivered |-> dev \o Append(batch, req)]
setCommand(batch, dev, req) ==
    IF req.apply
    THEN [pending |-> <<>>, delivered |-> dev \o Append(batch, req)]
    ELSE [pending |-> Append(batch, req), delivered |-> dev]

\* One statement of a configuration function; after its last statement main
\* goes on at `next`.
RunStatement(body, next) ==
    LET stmt == body[k] IN
    /\ IF stmt.op = "setCommand"
       THEN /\ pending' = setCommand(pending, delivered, stmt).pending
            /\ delivered' = setCommand(pending, delivered, stmt).delivered
            /\ issued' = Append(issued, stmt)
            /\ sleeps' = sleeps
       ELSE /\ sleeps' = sleeps + stmt.ms
            /\ UNCHANGED <<pending, delivered, issued>>
    /\ IF k < Len(body)
       THEN k' = k + 1 /\ pc' = pc
       ELSE k' = 1 /\ pc' = next
    /\ UNCHANGED <<res, c, exitCode, ret, nDisconnect, acq, twin>>

(***************************************************************************)
(* readAndSaveSomeData.  Its activation is a record: the locals res,       *)
(* status, readPacketsNum and c, the file f it writes (sink counts the     *)
(* floats written), the statement it is at (pc) and the return statement   *)
(* it took (path), plus what the device session has seen of it: the number *)
(* of getDeviceStatus and readData calls, the count last requested, the    *)
(* 1 ms waits, the signals printed for the last status, and the results of *)
(* purgeData and of the last getDeviceStatus ("none" before the call).     *)
(***************************************************************************)
AcqInit ==
    [pc |-> "purgeData", path |-> "none", res |-> EdlSuccess, c |-> 0,
     status |-> [availableDataPackets |-> 0, bufferOverflowFlag |-> FALSE,
                 lostDataFlag |-> FALSE],
     readPacketsNum |-> 0, requested |-> 0,
     f |-> "unopened", closes |-> 0, sink |-> 0,
     nStatus |-> 0, nReads |-> 0, nWaits |-> 0, belowOnly |-> TRUE,
     signals |-> {}, purged |-> "none", lastStatus |-> "none"]

\* fclose(f)
FcloseForgotten(s) == s
fclose(s) == [s EXCEPT !.f = "closed", !.closes = @ + 1]

\* The loop test of line 124, taken with the counter value n.
LoopTestInclusive(n) == n <= AcqIterations
LoopTest(n) == n < AcqIterations

\* Entering the loop (c = 0) or coming round it (c++): test, then either the
\* next getDeviceStatus or the return of line 178.
ToLoopTest(s, n) ==
    IF LoopTest(n)
    THEN [s EXCEPT !.c = n, !.pc = "getDeviceStatus"]
    ELSE [s EXCEPT !.c = n, !.pc = "return", !.path = "budget"]

\* Lines 108-118: Sleep(500), purgeData, return on failure.
PurgeFailureGoesOn(s, r) ==
    ToLoopTest([s EXCEPT !.res = r, !.purged = r], 0)
AfterPurgeData(s, r) ==
    IF r # EdlSuccess
    THEN [s EXCEPT !.res = r, !.purged = r, !.pc = "return",
                   !.path = "purge"]
    ELSE ToLoopTest([s EXCEPT !.res = r, !.purged = r], 0)

\* Line 143: is a read performed for this snapshot?
ShouldReadAdaptive(st) ==
    st.availableDataPackets >=
        (IF st.bufferOverflowFlag
         THEN MINIMUM_DATA_PACKETS_TO_READ + 1
         ELSE MINIMUM_DATA_PACKETS_TO_READ)
ShouldReadEarly(st) ==
    st.availableDataPackets >= MINIMUM_DATA_PACKETS_TO_READ - 1
ShouldRead(st) == st.availableDataPackets >= MINIMUM_DATA_PACKETS_TO_READ

\* Lines 134-141: the advisory signals printed for a snapshot.
Signals(st) ==
    (IF st.bufferOverflowFlag THEN {"bufferOverflow"} ELSE {})
    \cup (IF st.lostDataFlag THEN {"lostData"} ELSE {})

\* Lines 126-143: getDeviceStatus returned r and, on success, snapshot st.
StatusFailureGoesOn(s, r, st) ==
    [s EXCEPT !.res = r, !.lastStatus = r, !.nStatus = @ + 1,
              !.status = st, !.signals = Signals(st),
              !.belowOnly = @ /\ st.availableDataPackets
                                    < MINIMUM_DATA_PACKETS_TO_READ,
              !.pc = IF ShouldRead(st) THEN "readData" ELSE "Sleep"]
AfterGetDeviceStatus(s, r, st) ==
    IF r # EdlSuccess
    THEN [s EXCEPT !.res = r, !.lastStatus = r, !.nStatus = @ + 1,
                   !.pc = "return", !.path = "status"]
    ELSE [s EXCEPT !.res = r, !.lastStatus = r, !.nStatus = @ + 1,
                   !.status = st, !.signals = Signals(st),
                   !.belowOnly = @ /\ st.availableDataPackets
                                         < MINIMUM_DATA_PACKETS_TO_READ,
                   !.pc = IF ShouldRead(st) THEN "readData" ELSE "Sleep"]

\* Lines 145-158: readData(status.availableDataPackets, readPacketsNum,
\* data) returned r and n packets.
NotConnectedGoesOn(s, r, n) ==
    IF r = EdlDeviceNotConnectedError
    THEN [fclose(s) EXCEPT !.res = r, !.nReads = @ + 1,
                           !.readPacketsNum = n,
                           !.requested = s.status.availableDataPackets,
                           !.pc = "fwrite"]
    ELSE [s EXCEPT !.res = r, !.nReads = @ + 1, !.readPacketsNum = n,
                   !.requested = s.status.availableDataPackets,
                   !.pc = "fwrite"]
ReadErrorAborts(s, r, n) ==
    IF r # EdlSuccess
    THEN [fclose(s) EXCEPT !.res = r, !.nReads = @ + 1,
                           !.readPacketsNum = n,
                           !.requested = s.status.availableDataPackets,
                           !.pc = "return", !.path = "notConnected"]
    ELSE [s EXCEPT !.res = r, !.nReads = @ + 1, !.readPacketsNum = n,
                   !.requested = s.status.availableDataPackets,
                   !.pc = "fwrite"]
AfterReadData(s, r, n) ==
    IF r = EdlDeviceNotConnectedError
    THEN [fclose(s) EXCEPT !.res = r, !.nReads = @ + 1,
                           !.readPacketsNum = n,
                           !.requested = s.status.availableDataPackets,
                           !.pc = "return", !.path = "notConnected"]
    ELSE [s EXCEPT !.res = r, !.nReads = @ + 1, !.readPacketsNum = n,
                   !.requested = s.status.availableDataPackets,
                   !.pc = "fwrite"]

\* Lines 163-167: the floats appended for the packets just read.
FramesRequested(s) == s.requested * EDL_CHANNEL_NUM
FramesOnePerPacket(s) == s.readPacketsNum
FramesWritten(s) == s.readPacketsNum * EDL_CHANNEL_NUM

\* Lines 163-175: the write loop, then c++ and the loop test.
FwriteThenSleep(s) ==
    ToLoopTest([s EXCEPT !.sink = @ + FramesWritten(s), !.nWaits = @ + 1],
               s.c + 1)
AfterFwrite(s) ==
    ToLoopTest([s EXCEPT !.sink = @ + FramesWritten(s)], s.c + 1)

\* Lines 171-175: Sleep(1), then c++ and the loop test.
AfterSleep(s) == ToLoopTest([s EXCEPT !.nWaits = @ + 1], s.c + 1)

\* The twin activation takes a step only where it stands at the same
\* statement.
Lockstep(at, next) == IF twin.pc = at THEN next ELSE twin

mainOnly == <<res, c, exitCode, ret, k, pending, delivered, issued, sleeps,
              nDisconnect>>

PurgeData ==
    /\ pc = "readAndSaveSomeData" /\ acq.pc = "purgeData"
    /\ \E r \in EdlErrorCode_t :
         /\ acq' = AfterPurgeData(acq, r)
         /\ twin' = Lockstep("purgeData", AfterPurgeData(twin, r))
    /\ UNCHANGED <<pc, mainOnly>>

GetDeviceStatus ==
    /\ pc = "readAndSaveSomeData" /\ acq.pc = "getDeviceStatus"
    /\ \E r \in EdlErrorCode_t, st \in EdlDeviceStatus_t,
          ovf \in BOOLEAN, lost \in BOOLEAN :
         /\ acq' = AfterGetDeviceStatus(acq, r, st)
         /\ twin' = Lockstep("getDeviceStatus",
                AfterGetDeviceStatus(twin, r,
                    [st EXCEPT !.bufferOverflowFlag = ovf,
                               !.lostDataFlag = lost]))
    /\ UNCHANGED <<pc, mainOnly>>

ReadData ==
    /\ pc = "readAndSaveSomeData" /\ acq.pc = "readData"
    /\ \E r \in EdlErrorCode_t,
          n \in ReadCounts(acq.status.availableDataPackets) :
         /\ acq' = AfterReadData(acq, r, n)
         /\ twin' = Lockstep("readData", AfterReadData(twin, r, n))
    /\ UNCHANGED <<pc, mainOnly>>

Fwrite ==
    /\ pc = "readAndSaveSomeData" /\ acq.pc = "fwrite"
    /\ acq' = AfterFwrite(acq)
    /\ twin' = Lockstep("fwrite", AfterFwrite(twin))
    /\ UNCHANGED <<pc, mainOnly>>

Sleep ==
    /\ pc = "readAndSaveSomeData" /\ acq.pc = "Sleep"
    /\ acq' = AfterSleep(acq)
    /\ twin' = Lockstep("Sleep", AfterSleep(twin))
    /\ UNCHANGED <<pc, mainOnly>>

(***************************************************************************)
(* main.                                                                   *)
(***************************************************************************)
\* return -1 / return 0 of main, through the return statement named `by`.
Return(code, by) == exitCode' = code /\ ret' = by /\ pc' = "exit"

cmdVars == <<k, pending, delivered, issued, sleeps>>

\* The tests of lines 200 and 212.
DetectFailed(r) == r # EdlSuccess
ConnectFailureIgnored(r) == FALSE
ConnectFailed(r) == r # EdlSuccess

\* Lines 197-203.
DetectDevices ==
    /\ pc = "detectDevices"
    /\ \E r \in EdlErrorCode_t :
         /\ res' = r
         /\ IF DetectFailed(r)
            THEN Return(-1, "detect")
            ELSE pc' = "connectDevice" /\ UNCHANGED <<exitCode, ret>>
    /\ UNCHANGED <<c, cmdVars, nDisconnect, acq, twin>>

\* Lines 208-216.
ConnectDevice ==
    /\ pc = "connectDevice"
    /\ \E r \in EdlErrorCode_t :
         /\ res' = r
         /\ IF ConnectFailed(r)
            THEN Return(-1, "connect")
            ELSE pc' = "configureWorkingModality" /\ UNCHANGED <<exitCode, ret>>
    /\ UNCHANGED <<c, cmdVars, nDisconnect, acq, twin>>

\* Line 220.
ConfigureWorkingModality ==
    /\ pc = "configureWorkingModality"
    /\ RunStatement(configureWorkingModality, "compensateDigitalOffset")

\* Line 224.
CompensateDigitalOffset ==
    /\ pc = "compensateDigitalOffset"
    /\ RunStatement(compensateDigitalOffset, "setTriangularProtocol")

\* Line 229.
SetTriangularProtocol ==
    /\ pc = "setTriangularProtocol"
    /\ RunStatement(setTriangularProtocol, "fopen")

\* Lines 232-235: open data.dat and call readAndSaveSomeData.
Fopen ==
    /\ pc = "fopen"
    /\ acq' = [acq EXCEPT !.f = "open"]
    /\ twin' = [twin EXCEPT !.f = "open"]
    /\ pc' = "readAndSaveSomeData"
    /\ UNCHANGED mainOnly

\* The loop test of line 251, "c++ < 1e3", taken with the counter value n.
RetryTestInclusive(n) == n <= MaxAttempts
RetryTest(n) == n < MaxAttempts

\* Lines 235-251: readAndSaveSomeData has returned; main gives up on a
\* failure, and otherwise closes the file and enters the disconnect loop.
ReadFailureIgnored(r) == FALSE
ReadFailed(r) == r # EdlSuccess
AfterRead ==
    /\ pc = "readAndSaveSomeData" /\ acq.pc = "return"
    /\ res' = acq.res
    /\ IF ReadFailed(acq.res)
       THEN Return(-1, "read") /\ UNCHANGED <<c, acq>>
       ELSE /\ acq' = fclose(acq)
            /\ c' = 1
            /\ pc' = IF RetryTest(0) THEN "disconnectDevice"
                                     ELSE "afterDisconnect"
            /\ UNCHANGED <<exitCode, ret>>
    /\ UNCHANGED <<cmdVars, nDisconnect, twin>>

\* Lines 252-260: one attempt; break on success, else Sleep(1) and test again.
DisconnectDevice ==
    /\ pc = "disconnectDevice"
    /\ \E r \in EdlErrorCode_t :
         /\ res' = r
         /\ nDisconnect' = nDisconnect + 1
         /\ IF r = EdlSuccess
            THEN pc' = "afterDisconnect" /\ c' = c
            ELSE /\ c' = c + 1
                 /\ pc' = IF RetryTest(c) THEN "disconnectDevice"
                                          ELSE "afterDisconnect"
    /\ UNCHANGED <<exitCode, ret, cmdVars, acq, twin>>

\* Lines 263-268.
AfterDisconnect ==
    /\ pc = "afterDisconnect"
    /\ IF res # EdlSuccess THEN Return(-1, "disconnect") ELSE Return(0, "ok")
    /\ UNCHANGED <<res, c, cmdVars, nDisconnect, acq, twin>>

Init ==
    /\ pc = "detectDevices"
    /\ res = EdlSuccess
    /\ c = 0
    /\ exitCode = "running"
    /\ ret = "none"
    /\ k = 1
    /\ pending = <<>>
    /\ delivered = <<>>
    /\ issued = <<>>
    /\ sleeps = 0
    /\ nDisconnect = 0
    /\ acq = AcqInit
    /\ twin = AcqInit

Next ==
    \/ DetectDevices
    \/ ConnectDevice
    \/ ConfigureWorkingModality
    \/ CompensateDigitalOffset
    \/ SetTriangularProtocol
    \/ Fopen
    \/ PurgeData
    \/ GetDeviceStatus
    \/ ReadData
    \/ Fwrite
    \/ Sleep
    \/ AfterRead
    \/ DisconnectDevice
    \/ AfterDisconnect

Spec == Init /\ [][Next]_vars

(***************************************************************************)
(* Properties.                                                             *)
(***************************************************************************)
\* The fatal failures of a run: detection, connection, purge, status query,
\* not-connected on a read, disconnect failing on every attempt.
Fatal ==
    \/ ret \in {"detect", "connect", "disconnect"}
    \/ acq.path \in {"purge", "status", "notConnected"}

\* Bytes in the sink.
SinkBytes(s) == s.sink * SizeofFloat

\* What a device session and the caller see of an activation: everything
\* but the advisory flags and the signals printed for them.
Observable(s) ==
    [s EXCEPT !.status = [availableDataPackets |-> @.availableDataPackets],
              !.signals = {}]

\* C1: whatever way the acquisition step ends, the sink main opened has been
\* closed when the program ends.
SinkReleasedOnEveryExit ==
    (pc = "exit" /\ acq.f # "unopened") => acq.f = "closed"

\* C2: the process exits with status 0 if and only if no fatal failure
\* occurred; an insufficient-data read never makes the status non-zero.
ExitZeroIffNoFatalFailure ==
    pc = "exit" => (exitCode = 0 <=> ~Fatal)

\* C3: the device session sees the requests in program order; the pending
\* batch reaches the device only with an applying request, which is
\* delivered after every request issued before it.
CommandsInProgramOrder ==
    /\ [](delivered \o pending = issued)
    /\ [](\A i \in 1..Len(pending) : ~pending[i].apply)
    /\ [][delivered' # delivered =>
            /\ Len(issued') = Len(issued) + 1
            /\ issued'[Len(issued')].apply
            /\ delivered' = issued']_vars
StackedBatchWaiting ==
    /\ pc = "setTriangularProtocol"
    /\ Len(pending) = 4
    /\ delivered = configureWorkingModality
                     \o SelectSeq(compensateDigitalOffset,
                                  LAMBDA s : s.op = "setCommand")

\* C4: after a read reports not-connected nothing more is asked of the
\* device or written to the sink, and the sink is closed exactly once.
NotConnectedShortCircuits ==
    /\ [](acq.path = "notConnected" => acq.closes = 1 /\ acq.f = "closed")
    /\ [][acq.path = "notConnected" =>
            /\ acq'.nStatus = acq.nStatus
            /\ acq'.nReads = acq.nReads
            /\ acq'.sink = acq.sink
            /\ acq'.closes = acq.closes]_vars
NotConnectedRunEnded ==
    /\ pc = "exit"
    /\ acq.path = "notConnected"
    /\ acq.nReads = 2
    /\ acq.sink > 0

\* C5: a read that reports insufficient data with m packets, m less than
\* requested, adds exactly m frames to the sink in that iteration, and the
\* loop goes on to the next status query while the budget lasts.
PartialReadPersistedAndLoopContinues ==
    [][(/\ acq.pc = "fwrite"
        /\ acq.res = EdlNotEnoughAvailableDataError
        /\ acq.readPacketsNum < acq.requested) =>
            /\ acq'.sink = acq.sink + acq.readPacketsNum * EDL_CHANNEL_NUM
            /\ acq'.path \in {"none", "budget"}
            /\ (acq.c + 1 < AcqIterations =>
                    acq'.pc = "getDeviceStatus" /\ acq'.path = "none")]_vars
PartialReadThenNextPoll ==
    /\ acq.pc = "getDeviceStatus"
    /\ acq.c = 1
    /\ acq.res = EdlNotEnoughAvailableDataError
    /\ acq.readPacketsNum = acq.requested - 1
    /\ acq.sink = acq.readPacketsNum * EDL_CHANNEL_NUM

\* C6: when the status reports k packets, k at least the threshold, and the
\* read returns k packets, the iteration adds exactly k frames to the sink:
\* k * EDL_CHANNEL_NUM floats, 480 bytes for k = 15.
FullReadAccounting ==
    [][(/\ acq.pc = "fwrite"
        /\ acq.status.availableDataPackets >= MINIMUM_DATA_PACKETS_TO_READ
        /\ acq.readPacketsNum = acq.status.availableDataPackets) =>
            LET n == acq.status.availableDataPackets IN
            /\ acq'.sink = acq.sink + n * EDL_CHANNEL_NUM
            /\ SinkBytes(acq') = SinkBytes(acq) + n * EDL_CHANNEL_NUM * 4
            /\ (n = 15 => SinkBytes(acq') = SinkBytes(acq) + 480)]_vars
FullReadOfFifteen ==
    /\ acq.c = 1
    /\ acq.nReads = 1
    /\ acq.status.availableDataPackets = 15
    /\ acq.readPacketsNum = 15
    /\ SinkBytes(acq) = 480

\* C7: a read is issued only for a snapshot at or above the threshold and
\* asks for that snapshot's count; when every snapshot is below it, no read
\* is issued and nothing is written.
ThresholdGating ==
    /\ acq.belowOnly => (acq.nReads = 0 /\ acq.sink = 0)
    /\ acq.pc = "readData" =>
          acq.status.availableDataPackets >= MINIMUM_DATA_PACKETS_TO_READ
    /\ (acq.pc = "fwrite" \/ acq.path = "notConnected") =>
          /\ acq.requested = acq.status.availableDataPackets
          /\ acq.requested >= MINIMUM_DATA_PACKETS_TO_READ
BudgetSpentBelowThreshold ==
    /\ acq.path = "budget"
    /\ acq.belowOnly
    /\ acq.nStatus = AcqIterations
    /\ acq.nWaits = AcqIterations

\* C8: the disconnect loop tries again only after a failure and while
\* attempts remain; a success after j failures ends it after j+1 attempts
\* and the run exits 0; MaxAttempts failures end it and the run exits -1.
DisconnectBound ==
    /\ pc = "disconnectDevice" =>
          /\ nDisconnect < MaxAttempts
          /\ (nDisconnect > 0 => res # EdlSuccess)
    /\ (pc \in {"afterDisconnect", "exit"} /\ ret \in {"none", "ok", "disconnect"}) =>
          \/ res = EdlSuccess /\ nDisconnect \in 1..MaxAttempts
          \/ res # EdlSuccess /\ nDisconnect = MaxAttempts
    /\ (pc = "exit" /\ ret \in {"ok", "disconnect"}) =>
          exitCode = (IF res = EdlSuccess THEN 0 ELSE -1)
DisconnectedOnLastAttempt ==
    /\ pc = "exit"
    /\ exitCode = 0
    /\ nDisconnect = MaxAttempts

\* C9: two activations that get the same device responses, except for the
\* advisory flags, ask the same of the device, write the same, wait the same
\* and return the same.
AdvisoryFlagsIgnored ==
    pc = "readAndSaveSomeData" => Observable(acq) = Observable(twin)
OverflowFlaggedReadWritten ==
    /\ pc = "readAndSaveSomeData"
    /\ acq.pc = "getDeviceStatus"
    /\ acq.status.bufferOverflowFlag
    /\ ~twin.status.bufferOverflowFlag
    /\ acq.status.availableDataPackets = MaxAvail
    /\ acq.res = EdlSuccess
    /\ acq.readPacketsNum = MaxAvail
    /\ acq.sink = MaxAvail * EDL_CHANNEL_NUM

\* C10: a failed status query ends the loop at once: no read, write or
\* status query follows, and main gets the failing result and exits -1.
StatusFailureAbortsAndPropagates ==
    /\ [](acq.pc \in {"readData", "Sleep"} => acq.res = EdlSuccess)
    /\ [](acq.path = "status" => acq.pc = "return" /\ acq.res # EdlSuccess)
    /\ [][acq.path = "status" =>
            /\ acq'.nStatus = acq.nStatus
            /\ acq'.nReads = acq.nReads
            /\ acq'.sink = acq.sink]_vars
    /\ []((acq.path = "status" /\ pc = "exit") =>
             (exitCode = -1 /\ ret = "read" /\ res = acq.res))
StatusFailedInSecondIteration ==
    /\ pc = "exit"
    /\ acq.path = "status"
    /\ acq.nStatus = 2
    /\ acq.nReads = 1
    /\ acq.sink > 0

\* C11: when purgeData fails the poll-read cycle does not start: no status
\* query, no read, no write, and the purge result goes back to the caller.
PurgeFailureStopsAcquisition ==
    acq.purged \notin {"none", EdlSuccess} =>
        /\ acq.pc = "return"
        /\ acq.nStatus = 0 /\ acq.nReads = 0 /\ acq.nWaits = 0
        /\ acq.sink = 0
        /\ acq.res = acq.purged
        /\ (pc = "exit" => res = acq.purged)
PurgeFailedRunEnded ==
    /\ pc = "exit"
    /\ acq.purged = EdlOtherError
    /\ res = EdlOtherError
    /\ acq.f = "open"

\* The two compensation button requests (lines 54-55 and 61-62).
ButtonPressed == Cmd("EdlCommandCompAll", "EDL_BUTTON_PRESSED", TRUE)
ButtonReleased == Cmd("EdlCommandCompAll", "EDL_BUTTON_RELEASED", TRUE)
Delivered(req) == \E i \in 1..Len(delivered) : delivered[i] = req

\* C12: compensation is: protocol 0 and hold 0 flushed, button-pressed
\* flushed, the 5000 ms dwell, button-released flushed.  Between the two
\* button flushes there is exactly the one dwell and no device operation,
\* and button-released is never sent before the dwell is over.
CompensationSequence ==
    /\ [](sleeps \in {0, 5000})
    /\ [](Len(delivered) \in {0, 3, 6, 7, 8, 13})
    /\ [](Len(delivered) >= 8 =>
             SubSeq(delivered, 4, 8) =
                 << Cmd("EdlCommandMainTrial", 0, FALSE),
                    Cmd("EdlCommandVhold", 0, FALSE),
                    Cmd("EdlCommandApplyProtocol", 0, TRUE),
                    ButtonPressed, ButtonReleased >>)
    /\ [](sleeps = 5000 => Delivered(ButtonPressed))
    /\ [](Delivered(ButtonReleased) => sleeps = 5000)
    /\ []((Delivered(ButtonPressed) /\ ~Delivered(ButtonReleased)) =>
             /\ pc = "compensateDigitalOffset"
             /\ pending = <<>>
             /\ acq = AcqInit
             /\ nDisconnect = 0)
    /\ [][(Delivered(ButtonPressed) /\ ~Delivered(ButtonReleased)) =>
             \/ sleeps = 0 /\ sleeps' = 5000 /\ issued' = issued
             \/ /\ sleeps = 5000 /\ sleeps' = 5000
                /\ delivered' = Append(delivered, ButtonReleased)]_vars
DwellOverBeforeRelease ==
    /\ pc = "compensateDigitalOffset"
    /\ k = 6
    /\ sleeps = 5000
    /\ Delivered(ButtonPressed)
    /\ ~Delivered(ButtonReleased)

\* C13: when the poll-read cycle ends by spending its budget, the result
\* returned is that of the last getDeviceStatus, whatever the last read
\* returned.
ReturnsLastStatusResult ==
    (acq.pc = "return" /\ acq.path = "budget") => acq.res = acq.lastStatus

\* C14: when detectDevices or connectDevice fails the run ends with a
\* non-zero status and nothing else was asked of the device: no setCommand,
\* purgeData, getDeviceStatus, readData or disconnectDevice, and the sink was
\* never opened; the device is configured only after both succeeded.
NothingTouchedWithoutConnection ==
    /\ ret \in {"detect", "connect"} =>
          /\ exitCode = -1
          /\ issued = <<>> /\ pending = <<>> /\ delivered = <<>>
          /\ sleeps = 0
          /\ acq = AcqInit
          /\ nDisconnect = 0
    /\ pc \in {"connectDevice", "configureWorkingModality",
               "compensateDigitalOffset", "setTriangularProtocol", "fopen"} =>
          res = EdlSuccess
ConnectionFailedRunEnded ==
    /\ pc = "exit"
    /\ ret = "connect"
    /\ res = EdlDeviceNotConnectedError
    /\ exitCode = -1

\* What has been asked of the device session so far.
DeviceOps == <<issued, acq.purged, acq.nStatus, acq.nReads, nDisconnect>>

\* C15: once a fatal condition has occurred nothing more is asked of the
\* device: the failed operation is not retried, and disconnectDevice is
\* never called after a fatal failure of the acquisition.
FaultedIsAbsorbing ==
    /\ [](Fatal => \/ pc = "exit"
                   \/ pc = "readAndSaveSomeData" /\ acq.pc = "return")
    /\ [](acq.path \in {"purge", "status", "notConnected"} =>
             nDisconnect = 0)
    /\ [][Fatal => DeviceOps' = DeviceOps]_vars
    /\ []((Fatal /\ pc = "exit") => exitCode = -1)
NotConnectedOnFirstRead ==
    /\ pc = "exit"
    /\ acq.path = "notConnected"
    /\ acq.nReads = 1
    /\ acq.nStatus = 1
    /\ nDisconnect = 0

\* C16: the 1 ms wait is taken in exactly the iterations whose snapshot is
\* below the threshold and never in one that reads; every iteration makes
\* one status query and at most one read.
BackoffOnlyWithoutRead ==
    /\ [](acq.pc = "Sleep" =>
             acq.status.availableDataPackets < MINIMUM_DATA_PACKETS_TO_READ)
    /\ [](acq.pc \in {"readData", "fwrite"} =>
             acq.status.availableDataPackets >= MINIMUM_DATA_PACKETS_TO_READ)
    /\ []((acq.pc = "getDeviceStatus" \/ acq.path = "budget") =>
             acq.nStatus = acq.c /\ acq.nReads + acq.nWaits = acq.c)
    /\ [](acq.pc \in {"readData", "Sleep"} =>
             acq.nStatus = acq.c + 1 /\ acq.nReads + acq.nWaits = acq.c)
    /\ [](acq.pc = "fwrite" =>
             acq.nStatus = acq.c + 1 /\ acq.nReads + acq.nWaits = acq.c + 1)
    /\ [][acq'.nWaits # acq.nWaits =>
             /\ acq.pc = "Sleep"
             /\ acq'.nWaits = acq.nWaits + 1
             /\ acq'.nReads = acq.nReads
             /\ acq'.c = acq.c + 1]_vars
    /\ [][acq'.nReads # acq.nReads =>
             /\ acq.pc = "readData"
             /\ acq'.nReads = acq.nReads + 1
             /\ acq'.nWaits = acq.nWaits
             /\ acq'.c = acq.c]_vars
ReadAndWaitIterations ==
    /\ acq.path = "budget"
    /\ acq.nReads = 1
    /\ acq.nWaits = AcqIterations - 1

\* The program is sequential and every call on the device session returns
\* (the session's operations do not block, and the waits are finite), so
\* main always takes its next step.
FairSpec == Spec /\ WF_vars(Next)

\* An upper bound on the steps main still has to take: its position, and
\* within a phase the statements, iterations or attempts that remain.
Rank(at) ==
    CASE at = "detectDevices" -> 9
      [] at = "connectDevice" -> 8
      [] at = "configureWorkingModality" -> 7
      [] at = "compensateDigitalOffset" -> 6
      [] at = "setTriangularProtocol" -> 5
      [] at = "fopen" -> 4
      [] at = "readAndSaveSomeData" -> 3
      [] at = "disconnectDevice" -> 2
      [] at = "afterDisconnect" -> 1
      [] OTHER -> 0
AcqRemaining(s) ==
    CASE s.pc = "purgeData" -> 3 * AcqIterations + 2
      [] s.pc = "getDeviceStatus" -> 3 * (AcqIterations - s.c) + 1
      [] s.pc \in {"readData", "Sleep"} -> 3 * (AcqIterations - s.c)
      [] s.pc = "fwrite" -> 3 * (AcqIterations - s.c) - 1
      [] OTHER -> 0
Variant ==
    Rank(pc) * (3 * AcqIterations + MaxAttempts + 10)
    + (CASE pc = "configureWorkingModality" ->
                Len(configureWorkingModality) - k
         [] pc = "compensateDigitalOffset" -> Len(compensateDigitalOffset) - k
         [] pc = "setTriangularProtocol" -> Len(setTriangularProtocol) - k
         [] pc = "readAndSaveSomeData" -> AcqRemaining(acq)
         [] pc = "disconnectDevice" -> MaxAttempts + 1 - c
         [] OTHER -> 0)

\* C17: every run ends: the poll-read cycle makes at most AcqIterations
\* status queries (exactly that many when it ends by spending its budget),
\* the disconnect loop at most MaxAttempts attempts, and main returns: it
\* is never stuck before its return, and every step it takes lowers a
\* natural number, so it returns after finitely many steps.
RunTerminates ==
    /\ [](pc = "exit" \/ ENABLED Next)
    /\ [](Variant >= 0)
    /\ [][Variant' < Variant]_vars
    /\ [](pc = "exit" => exitCode \in {0, -1})
    /\ [](acq.nStatus <= AcqIterations /\ acq.c <= AcqIterations)
    /\ [](acq.path = "budget" => acq.nStatus = AcqIterations)
    /\ [](nDisconnect <= MaxAttempts)
\* The same as a liveness property of FairSpec.
EventuallyExits == <>(pc = "exit")
BothBudgetsSpent ==
    /\ pc = "exit"
    /\ exitCode = -1
    /\ acq.nStatus = AcqIterations
    /\ nDisconnect = MaxAttempts

\* The requests of the three configuration functions, in call order.
AllCommands ==
    SelectSeq(configureWorkingModality \o compensateDigitalOffset
                  \o setTriangularProtocol,
              LAMBDA s : s.op = "setCommand")

\* C18: the phases follow one another without overlap: configuration,
\* compensation, triangular protocol, purge, poll-read cycle, disconnect.
\* Every setCommand comes before purgeData, button-released is flushed
\* before the first triangular request, purgeData comes before the first
\* getDeviceStatus and readData, and the first disconnectDevice comes after
\* the last read and after the sink was closed.
PhasesInOrder ==
    /\ [](issued = SubSeq(AllCommands, 1, Len(issued)))
    /\ [](acq.purged # "none" => issued = AllCommands /\ pending = <<>>)
    /\ [](Len(issued) > Len(configureWorkingModality) + 5 =>
             Delivered(ButtonReleased))
    /\ []((acq.nStatus > 0 \/ acq.nReads > 0) => acq.purged = EdlSuccess)
    /\ [](nDisconnect > 0 =>
             /\ acq.f = "closed"
             /\ acq.pc = "return" /\ acq.path = "budget")
    /\ [][nDisconnect' # nDisconnect =>
             acq.f = "closed" /\ acq' = acq /\ issued' = issued]_vars
    /\ [][acq.purged # "none" => issued' = issued]_vars
AllPhasesDone ==
    /\ pc = "exit"
    /\ ret = "ok"
    /\ acq.nReads = 2
    /\ nDisconnect = 2

\* C19: the sink is closed at most once and never written after it was
\* closed; the close of the not-connected path and the close of main after
\* a successful acquisition never both happen.
SinkClosedOnceNeverWrittenAfter ==
    /\ [](acq.closes <= 1)
    /\ [](acq.f = "closed" <=> acq.closes = 1)
    /\ [](acq.pc = "fwrite" => acq.f = "open")
    /\ [](acq.path = "notConnected" =>
             pc \in {"readAndSaveSomeData", "exit"} /\ ret \in {"none", "read"})
    /\ [][acq.f = "closed" =>
             acq'.sink = acq.sink /\ acq'.f = "closed"]_vars
ClosedByMainAfterWrites ==
    /\ pc = "exit"
    /\ ret = "disconnect"
    /\ acq.closes = 1
    /\ acq.sink > 0

\* C20: not-connected is the only read result that ends the poll-read
\* cycle; after any other result readPacketsNum frames are appended and the
\* loop goes round; the cycle ends before its budget is spent only on a
\* failed status query or a not-connected read.
OnlyNotConnectedReadAborts ==
    /\ [][acq.pc = "readData" /\ acq'.pc # "readData" =>
             IF acq'.res = EdlDeviceNotConnectedError
             THEN acq'.pc = "return" /\ acq'.path = "notConnected"
             ELSE acq'.pc = "fwrite" /\ acq'.path = "none"]_vars
    /\ [][acq.pc = "fwrite" /\ acq'.pc # "fwrite" =>
             /\ acq'.sink = acq.sink + acq.readPacketsNum * EDL_CHANNEL_NUM
             /\ acq'.c = acq.c + 1
             /\ IF acq.c + 1 < AcqIterations
                THEN acq'.pc = "getDeviceStatus" /\ acq'.path = "none"
                ELSE acq'.pc = "return" /\ acq'.path = "budget"]_vars
    /\ [](acq.path = "notConnected" => acq.res = EdlDeviceNotConnectedError)
    /\ [](acq.path = "status" =>
             acq.lastStatus # EdlSuccess /\ acq.res = acq.lastStatus)
    /\ []((acq.pc = "return" /\ acq.purged = EdlSuccess
              /\ acq.c < AcqIterations) =>
             acq.path \in {"status", "notConnected"})
    /\ [](acq.path = "budget" => acq.c = AcqIterations)
OtherReadErrorWritten ==
    /\ acq.pc = "getDeviceStatus"
    /\ acq.res = EdlOtherError
    /\ acq.nReads = 1
    /\ acq.readPacketsNum = MINIMUM_DATA_PACKETS_TO_READ - 1
    /\ acq.sink = acq.readPacketsNum * EDL_CHANNEL_NUM

=============================================================================
